---------------------------- MODULE Spec2Model ----------------------------
(***************************************************************************)
(* The S4TK workspace singleton (src/src/workspace/s4tk-workspace.ts):     *)
(* the config slot and its context flag, the save/delete subscriptions,    *)
(* and the three asynchronous operations loadConfig, createDefaultProject  *)
(* and setDefaultStbl, each cut at its awaits.  Every await is two steps:  *)
(* the file system serving the request, and the event loop resuming the    *)
(* function; other handlers may run between any two steps.                 *)
(***************************************************************************)
EXTENDS Naturals, Sequences, FiniteSets, TLC

VARIABLES
    hasRoot,        \* vscode.workspace.workspaceFolders?.[0] is defined now
    file,           \* the file at <root>/s4tk.config.json: <<>> or <<text>>
    stblExists,     \* <root>/strings/default.stbl.json exists
    dirs,           \* the directories created under the root
    activated,      \* activate() has run (the two subscriptions exist)
    _config,        \* the private slot: <<>> (undefined) or <<config>>
    contextActive,  \* the value last given to setContext 's4tk.workspace.active'
    writer,         \* the invocation that last assigned the slot (0: none, or the delete handler)
    tasks,          \* the invocations in flight or finished, by slot
    event,          \* what the event handler run by the last step showed
    unhandled       \* the promise rejections of the last step that no code handles

vars == <<hasRoot, file, stblExists, dirs, activated, _config, contextActive,
          writer, tasks, event, unhandled>>

\* ------------------------------------------------------------------ bounds

\* The number of invocations made from outside (activate, an event, a
\* command, a popup button) in one run.
MaxTasks == 2

Slots == 1..MaxTasks

\* The loadConfig() that createDefaultProject's then-callback calls runs in
\* a slot of its own, next to the invocation that made it.
Child(t) == t + MaxTasks

AllSlots == 1..(MaxTasks + MaxTasks)

\* ------------------------------------------------------------------- paths

\* A path is the sequence of its pieces; endsWith is the string method.
endsWith(s, suffix) ==
    /\ Len(s) >= Len(suffix)
    /\ SubSeq(s, Len(s) - Len(suffix) + 1, Len(s)) = suffix

joinPath(base, name) == base \o <<"/">> \o name

CONFIG_FILENAME == <<"s4tk", ".config", ".json">>

rootUri == <<"/", "proj">>

ConfigUri == joinPath(rootUri, CONFIG_FILENAME)

\* Another file that happens to bear the config file's name, in a subfolder.
NestedConfigUri == joinPath(joinPath(rootUri, <<"packages">>), CONFIG_FILENAME)

StblUri == joinPath(joinPath(rootUri, <<"strings">>), <<"default", ".stbl", ".json">>)

\* The files the editor's save and delete events may name.
\* A file of the project that has nothing to do with the config.
TuningUri == joinPath(joinPath(rootUri, <<"src">>), <<"tuning", ".xml">>)

EventPaths == {ConfigUri, NestedConfigUri, TuningUri}

\* The sets of files one delete event may name: each file alone, and the
\* config file together with another.
DeletedSets == {{ConfigUri}, {NestedConfigUri}, {TuningUri}, {ConfigUri, TuningUri}}

\* The string tables a user may pick as default (their fsPath).
StblPaths == {"/new"}

ProjectDirs == {"out", "src", "strings"}

\* ------------------------------------------------- config text and parsing

\* A JSON text is a sequence of tokens <<key, type, value>>; braces are tokens.
LBRACE == <<"{", "", "">>

RBRACE == <<"}", "", "">>

BuildTok(v) == <<"buildInstructions", "object", v>>

StblTok(ty, v) == <<"stringTables.defaultPath", ty, v>>

Undefined == <<>>

Def(x) == <<x>>

Boolean(opt) == opt # Undefined

\* The last member of the text with this key (JSON.parse keeps the last).
Member(text, key) ==
    LET idx == {i \in 2..(Len(text) - 1) : text[i][1] = key}
    IN  IF idx = {} THEN Undefined
        ELSE LET i == CHOOSE j \in idx : \A k \in idx : k <= j
             IN  Def([type |-> text[i][2], val |-> text[i][3]])

\* JSON.parse: a syntax error unless the braces balance around the members.
JSONSyntaxOk(text) ==
    /\ Len(text) >= 2
    /\ text[1] = LBRACE
    /\ text[Len(text)] = RBRACE
    /\ \A i \in 2..(Len(text) - 1) : text[i] \notin {LBRACE, RBRACE}

JSONValue(text) ==
    LET st == Member(text, "stringTables.defaultPath")
    IN  [buildInstructions |-> Member(text, "buildInstructions"),
         stringTables |-> IF st = Undefined THEN Undefined
                          ELSE Def([defaultPath |-> st[1]])]

\* The schema: buildInstructions required; stringTables.defaultPath a string.
SchemaViolations(obj) ==
    (IF obj.buildInstructions = Undefined
       THEN <<"instance requires property buildInstructions">>
       ELSE <<>>)
    \o
    (IF obj.stringTables # Undefined /\ obj.stringTables[1].defaultPath.type # "string"
       THEN <<"instance.stringTables.defaultPath is not of a type(s) string">>
       ELSE <<>>)

SchemaValid(obj) == SchemaViolations(obj) = <<>>

NoError == [name |-> "", message |-> "", stack |-> ""]

\* parseConfig: the validated object, or the error thrown.
parseConfig(text) ==
    IF ~JSONSyntaxOk(text)
      THEN [ok |-> FALSE, config |-> Undefined,
            err |-> [name |-> "SyntaxError",
                     message |-> "Unexpected end of JSON input",
                     stack |-> "SyntaxError: Unexpected end of JSON input"]]
    ELSE IF ~SchemaValid(JSONValue(text))
      THEN [ok |-> FALSE, config |-> Undefined,
            err |-> [name |-> "ValidationError",
                     message |-> "validation failed",
                     stack |-> SchemaViolations(JSONValue(text))[1]]]
    ELSE [ok |-> TRUE, config |-> Def(JSONValue(text)), err |-> NoError]

\* stringifyConfig: the canonical text of a config object.
stringifyConfig(cfg) ==
    <<LBRACE>>
    \o (IF cfg.buildInstructions = Undefined THEN <<>>
        ELSE <<BuildTok(cfg.buildInstructions[1].val)>>)
    \o (IF cfg.stringTables = Undefined THEN <<>>
        ELSE <<StblTok(cfg.stringTables[1].defaultPath.type,
                       cfg.stringTables[1].defaultPath.val)>>)
    \o <<RBRACE>>

DEFAULT_CONFIG_CONTENT == <<LBRACE, BuildTok("default"), RBRACE>>

\* The documents a user may save as the config file: two valid ones (the
\* second with its members out of canonical order), one that is not JSON,
\* and one that is JSON but breaks the schema.
ValidText1 == <<LBRACE, BuildTok("b1"), RBRACE>>

ValidText2 == <<LBRACE, StblTok("string", "/old"), BuildTok("b2"), RBRACE>>

MalformedText == <<LBRACE, BuildTok("b1")>>

SchemaInvalidText == <<LBRACE, StblTok("number", "42"), RBRACE>>

UserTexts == {ValidText1, ValidText2, MalformedText, SchemaInvalidText}

\* A config document put in place by a program other than the editor.
ExternalText == <<LBRACE, BuildTok("ext"), RBRACE>>

\* ------------------------------------------------------------ notifications

_GET_HELP_BUTTON == "Get Help"

_REPORT_PROBLEM_BUTTON == "Report Problem"

_RELOAD_CONFIG_BUTTON == "Reload Config"

_CREATE_PROJECT_BUTTON == "Create S4TK Project"

Note(level, text, detail, buttons) ==
    [level |-> level, text |-> text, detail |-> detail, buttons |-> buttons]

UnloadedWarning == Note("warning", "S4TK config unloaded.", "", <<>>)

ExistsWarning == Note("warning", "S4TK config file already exists.", "", <<>>)

CreateFailedError ==
    Note("error", "Failed to create config file. Please report this problem.", "",
         <<_REPORT_PROBLEM_BUTTON>>)

NoConfigWarning ==
    Note("warning", "No 's4tk.config.json' file was found at the root of this project.",
         "", <<_CREATE_PROJECT_BUTTON>>)

LoadedInfo == Note("info", "Successfully loaded S4TK config.", "", <<>>)

InvalidError(errMsg) ==
    Note("error", "Could not validate S4TK config.", errMsg,
         <<_GET_HELP_BUTTON, _RELOAD_CONFIG_BUTTON>>)

NotLoadedError ==
    Note("error",
         "Cannot set this STBL as default because no S4TK config is currently loaded.",
         "", <<_RELOAD_CONFIG_BUTTON>>)

LocateFailedError ==
    Note("error", "Failed to locate config file while updating default STBL.", "",
         <<_REPORT_PROBLEM_BUTTON>>)

\* _handlePopupClick: what the clicked button calls.
_handlePopupClick(button) ==
    CASE button = _GET_HELP_BUTTON -> "openExternal"
      [] button = _REPORT_PROBLEM_BUTTON -> "openExternal"
      [] button = _RELOAD_CONFIG_BUTTON -> "loadConfig"
      [] button = _CREATE_PROJECT_BUTTON -> "createDefaultProject"
      [] OTHER -> "nothing"

\* -------------------------------------------------------------------- tasks

Pending == [state |-> "pending", value |-> Undefined]

Fulfilled(v) == [state |-> "fulfilled", value |-> v]

Rejected == [state |-> "rejected", value |-> Undefined]

\* One invocation of an async method: where it stands and its locals.
\*   uri, exists   configUriInfo, as _findConfig resolved it
\*   content       what readFile gave: <<text>>, or <<>> when it threw
\*   ret           the promise the invocation returned
\*   notes         the notifications it has shown (no invocation shows two)
\*   write, wtext  its writeFile of the config file, not awaited
\*   stblFound     what fileExists(stblUri) resolved to
\*   target        the object setDefaultStbl changed, named by its holder
IdleTask ==
    [op |-> "none", pc |-> "idle", showNoConfigError |-> FALSE, fsPath |-> "", target |-> 0,
     uri |-> FALSE, exists |-> FALSE, content |-> Undefined, ret |-> Pending,
     notes |-> <<>>, write |-> "none", wtext |-> <<>>, stblFound |-> FALSE]

\* The invocation has returned: its promise settles, its notifications
\* stay on screen, its write (if any) goes on; its locals are gone.
returned(task, ret, notes) ==
    [IdleTask EXCEPT !.op = task.op, !.pc = "done", !.ret = ret, !.notes = notes,
                     !.write = task.write, !.wtext = task.wtext]

\* A new invocation takes the first slot not yet used.
FreeSlot(ts, t) == ts[t].pc = "idle" /\ \A u \in Slots : ts[u].pc = "idle" => t <= u

\* What an event handler showed, when the last step was one.
NoEvent == [shown |-> <<>>]

\* A variant of setContextValue that sets the flag whenever the setter runs.
setContextValue_alwaysTrue(config) == TRUE

\* The setter of config: the value it gives to setContext.
setContextValue(config) == Boolean(config)

get_active == Boolean(_config)

\* _findConfig up to its await: without a root it resolves at once, with
\* one it waits for fileExists.
findConfigCall(task) ==
    [task EXCEPT !.uri = hasRoot, !.exists = FALSE,
                 !.pc = IF hasRoot THEN "find_stat" ELSE "find_resume"]

\* A variant of loadConfigEntry that leaves the slot as it is.
loadConfigEntry_keep(slot) == slot

\* What line 90 of loadConfig assigns to the slot, whatever it held.
loadConfigEntry(slot) == Undefined

\* loadConfig up to its first await: the slot is cleared, _findConfig called.
loadConfigCall(show) ==
    findConfigCall([IdleTask EXCEPT !.op = "loadConfig", !.showNoConfigError = show])

Init ==
    /\ hasRoot \in BOOLEAN
    /\ file \in (IF hasRoot THEN {Undefined} \cup {Def(tx) : tx \in UserTexts}
                 ELSE {Undefined})
    /\ stblExists = FALSE
    /\ dirs = {}
    /\ activated = FALSE
    /\ _config = Undefined
    /\ contextActive = FALSE
    /\ writer = 0
    /\ tasks = [t \in AllSlots |-> IdleTask]
    /\ event = NoEvent
    /\ unhandled = {}

\* activate(): subscribes to both events, then calls loadConfig().
Activate ==
    /\ ~activated
    /\ activated' = TRUE
    /\ \E t \in Slots :
         /\ FreeSlot(tasks, t)
         /\ tasks' = [tasks EXCEPT ![t] = loadConfigCall(FALSE)]
         /\ writer' = t
    /\ _config' = loadConfigEntry(_config)
    /\ contextActive' = setContextValue(loadConfigEntry(_config))
    /\ event' = NoEvent
    /\ UNCHANGED <<hasRoot, file, stblExists, dirs>>
    /\ unhandled' = {}

\* The onDidSaveTextDocument handler's test.
saveMatches(fileName) == endsWith(fileName, CONFIG_FILENAME)

\* A document is saved: the editor writes it, then the handler runs.
SaveEvent(path, text) ==
    /\ activated
    /\ IF path = ConfigUri
         THEN hasRoot /\ file' = Def(text)
         ELSE text = ValidText1 /\ file' = file
    /\ IF saveMatches(path)
         THEN /\ \E t \in Slots :
                   /\ FreeSlot(tasks, t)
                   /\ tasks' = [tasks EXCEPT ![t] = loadConfigCall(FALSE)]
                   /\ writer' = t
              /\ _config' = loadConfigEntry(_config)
              /\ contextActive' = setContextValue(loadConfigEntry(_config))
         ELSE UNCHANGED <<tasks, writer, _config, contextActive>>
    /\ event' = NoEvent
    /\ UNCHANGED <<hasRoot, stblExists, dirs, activated>>
    /\ unhandled' = {}

\* The onDidDeleteFiles handler's test.
deleteMatches(files) == \E uri \in files : endsWith(uri, CONFIG_FILENAME)

\* Files are deleted in the editor, then the handler runs.
DeleteEvent(files) ==
    /\ activated
    /\ files # {}
    /\ IF ConfigUri \in files
         THEN hasRoot /\ file # Undefined /\ file' = Undefined
         ELSE file' = file
    /\ IF deleteMatches(files)
         THEN /\ _config' = Undefined
              /\ contextActive' = setContextValue(Undefined)
              /\ writer' = 0
              /\ event' = [NoEvent EXCEPT !.shown = <<UnloadedWarning>>]
         ELSE /\ UNCHANGED <<_config, contextActive, writer>>
              /\ event' = NoEvent
    /\ UNCHANGED <<hasRoot, stblExists, dirs, activated, tasks>>
    /\ unhandled' = {}

\* A program other than the editor (a checkout, a file manager) puts a
\* config file at the root where there was none: no save event is fired.
ExternalCreate ==
    /\ activated
    /\ hasRoot
    /\ file = Undefined
    /\ file' = Def(ExternalText)
    /\ event' = NoEvent
    /\ UNCHANGED <<hasRoot, stblExists, dirs, activated, _config, contextActive, writer, tasks>>
    /\ unhandled' = {}

\* The project's folder is removed from the workspace: from now on
\* workspaceFolders?.[0] is undefined.  The files stay where they are, and
\* an invocation that resolved the config's uri before keeps it.
RemoveWorkspaceFolder ==
    /\ activated
    /\ hasRoot
    /\ hasRoot' = FALSE
    /\ event' = NoEvent
    /\ UNCHANGED <<file, stblExists, dirs, activated, _config, contextActive, writer, tasks>>
    /\ unhandled' = {}

\* fileExists(uri) of _findConfig is served by the file system.
FindStat(t) ==
    /\ tasks[t].pc = "find_stat"
    /\ tasks' = [tasks EXCEPT ![t].exists = Boolean(file), ![t].pc = "find_resume"]
    /\ event' = NoEvent
    /\ UNCHANGED <<hasRoot, file, stblExists, dirs, activated, _config, contextActive, writer>>
    /\ unhandled' = {}

\* ---------------------------------------------------------------- loadConfig

\* A variant of noConfigFound that looks at the uri alone.
noConfigFound_uriOnly(task) == ~task.uri

\* The test of line 93 on configUriInfo.
noConfigFound(task) == ~(task.uri /\ task.exists)

\* loadConfig resumes from _findConfig: gives up, or asks for the file.
LoadFindResume(t) ==
    /\ tasks[t].op = "loadConfig"
    /\ tasks[t].pc = "find_resume"
    /\ IF noConfigFound(tasks[t])
         THEN tasks' = [tasks EXCEPT
                  ![t] = returned(@, Fulfilled(Undefined),
                                  IF @.showNoConfigError THEN <<NoConfigWarning>>
                                  ELSE <<>>)]
         ELSE tasks' = [tasks EXCEPT ![t].pc = "read_io"]
    /\ event' = NoEvent
    /\ UNCHANGED <<hasRoot, file, stblExists, dirs, activated, _config, contextActive, writer>>
    /\ unhandled' = {}

\* readFile is served: the bytes of the file as it is now, or a failure
\* (always one when the file is gone).
ReadIO(t, ok) ==
    /\ tasks[t].pc = "read_io"
    /\ tasks' = [tasks EXCEPT
           ![t].content = IF ok /\ file # Undefined THEN file ELSE Undefined,
           ![t].pc = "read_resume"]
    /\ event' = NoEvent
    /\ UNCHANGED <<hasRoot, file, stblExists, dirs, activated, _config, contextActive, writer>>
    /\ unhandled' = {}

FileSystemError ==
    [name |-> "FileSystemError", message |-> "Unable to read file",
     stack |-> "FileSystemError: Unable to read file"]

\* The message the catch block picks from what was thrown.
errMsgOf(err) ==
    IF err.name = "SyntaxError" THEN err.message
    ELSE IF err.name = "ValidationError" THEN err.stack
    ELSE err.name

\* A variant of loadConfigTry that returns the parsed config without
\* storing it (return config, not return this.config = config).
loadConfigTry_noStore(content) ==
    IF content = Undefined
      THEN [assign |-> FALSE, value |-> Undefined,
            note |-> InvalidError(errMsgOf(FileSystemError))]
    ELSE IF parseConfig(content[1]).ok
      THEN [assign |-> FALSE, value |-> parseConfig(content[1]).config,
            note |-> LoadedInfo]
    ELSE [assign |-> FALSE, value |-> Undefined,
          note |-> InvalidError(errMsgOf(parseConfig(content[1]).err))]

\* The try/catch of loadConfig on what readFile gave: whether the slot is
\* assigned and with what, the value returned, the notification shown.
loadConfigTry(content) ==
    IF content = Undefined
      THEN [assign |-> FALSE, value |-> Undefined,
            note |-> InvalidError(errMsgOf(FileSystemError))]
    ELSE IF parseConfig(content[1]).ok
      THEN [assign |-> TRUE, value |-> parseConfig(content[1]).config,
            note |-> LoadedInfo]
    ELSE [assign |-> FALSE, value |-> Undefined,
          note |-> InvalidError(errMsgOf(parseConfig(content[1]).err))]

\* loadConfig resumes from readFile and runs to its return.
LoadReadResume(t) ==
    /\ tasks[t].op = "loadConfig"
    /\ tasks[t].pc = "read_resume"
    /\ LET out == loadConfigTry(tasks[t].content)
       IN  /\ tasks' = [tasks EXCEPT
                  ![t] = returned(@, Fulfilled(out.value), <<out.note>>)]
           /\ IF out.assign
                THEN /\ _config' = out.value
                     /\ contextActive' = setContextValue(out.value)
                     /\ writer' = t
                ELSE UNCHANGED <<_config, contextActive, writer>>
    /\ event' = NoEvent
    /\ UNCHANGED <<hasRoot, file, stblExists, dirs, activated>>
    /\ unhandled' = {}

\* ------------------------------------------------------ createDefaultProject

\* createDefaultProject() is called (a command, or the popup's button).
CreateDefaultProjectCall(t) ==
    /\ activated
    /\ FreeSlot(tasks, t)
    /\ tasks' = [tasks EXCEPT
           ![t] = findConfigCall([IdleTask EXCEPT !.op = "createDefaultProject"])]
    /\ event' = NoEvent
    /\ UNCHANGED <<hasRoot, file, stblExists, dirs, activated, _config, contextActive, writer>>
    /\ unhandled' = {}

\* A variant of createBranch that does not look at configUriInfo.exists.
createBranch_noExistsCheck(task) == IF ~task.uri THEN "no uri" ELSE "create"

\* Which branch of lines 50-59 is taken.
createBranch(task) ==
    IF task.exists THEN "exists"
    ELSE IF ~task.uri THEN "no uri"
    ELSE "create"

\* createDefaultProject resumes from _findConfig.  When it goes on, it starts
\* the write of the config file and the three createDirectory calls, none
\* awaited, and waits for fileExists(stblUri).  The directories are made, or
\* the calls fail, as one batch.  Line 66 reads the workspace folder again:
\* with the folder gone by now, joinPath(undefined, "out") throws after the
\* write was started, and the promise createDefaultProject returned is
\* rejected.
CreateFindResume(t, dirsOk) ==
    /\ tasks[t].op = "createDefaultProject"
    /\ tasks[t].pc = "find_resume"
    /\ event' = NoEvent
    /\ CASE createBranch(tasks[t]) = "exists" ->
              /\ dirsOk
              /\ tasks' = [tasks EXCEPT
                     ![t] = returned(@, Fulfilled(Undefined), <<ExistsWarning>>)]
              /\ dirs' = dirs /\ unhandled' = {}
         [] createBranch(tasks[t]) = "no uri" ->
              /\ dirsOk
              /\ tasks' = [tasks EXCEPT
                     ![t] = returned(@, Fulfilled(Undefined), <<CreateFailedError>>)]
              /\ dirs' = dirs /\ unhandled' = {}
         [] createBranch(tasks[t]) = "create" /\ ~hasRoot ->
              /\ dirsOk
              /\ tasks' = [tasks EXCEPT
                     ![t] = returned([@ EXCEPT !.write = "pending",
                                               !.wtext = DEFAULT_CONFIG_CONTENT],
                                     Rejected, <<>>)]
              /\ dirs' = dirs
              /\ unhandled' = {"createDefaultProject: TypeError"}
         [] OTHER ->
              /\ tasks' = [tasks EXCEPT ![t].write = "pending",
                                        ![t].wtext = DEFAULT_CONFIG_CONTENT,
                                        ![t].pc = "stbl_stat"]
              /\ dirs' = IF dirsOk THEN dirs \cup ProjectDirs ELSE dirs
              /\ unhandled' = IF dirsOk THEN {}
                              ELSE {"createDefaultProject: createDirectory"}
    /\ UNCHANGED <<hasRoot, file, stblExists, activated, _config, contextActive, writer>>

\* fileExists(stblUri) is served.
StblStat(t) ==
    /\ tasks[t].pc = "stbl_stat"
    /\ tasks' = [tasks EXCEPT ![t].stblFound = stblExists, ![t].pc = "stbl_resume"]
    /\ event' = NoEvent
    /\ UNCHANGED <<hasRoot, file, stblExists, dirs, activated, _config, contextActive, writer>>
    /\ unhandled' = {}

\* createDefaultProject resumes from fileExists(stblUri) and returns; the
\* write of the string table, not awaited, succeeds or fails.
CreateStblResume(t, stblOk) ==
    /\ tasks[t].op = "createDefaultProject"
    /\ tasks[t].pc = "stbl_resume"
    /\ tasks' = [tasks EXCEPT ![t] = returned(@, Fulfilled(Undefined), <<>>)]
    /\ IF tasks[t].stblFound
         THEN stblOk /\ stblExists' = stblExists /\ unhandled' = {}
         ELSE /\ stblExists' = (stblExists \/ stblOk)
              /\ unhandled' = IF stblOk THEN {}
                              ELSE {"createDefaultProject: writeFile(stbl)"}
    /\ event' = NoEvent
    /\ UNCHANGED <<hasRoot, file, dirs, activated, _config, contextActive, writer>>

\* A variant of writeSettled in which no write has a then-callback.
writeSettled_noThen(op) == "done"

\* Where a fulfilled write stands: the write of createDefaultProject has a
\* then-callback still to run, the write of setDefaultStbl has none.
writeSettled(op) == IF op = "createDefaultProject" THEN "written" ELSE "done"

\* A writeFile of the config file is served and succeeds.
WriteIO(t) ==
    /\ tasks[t].write = "pending"
    /\ file' = Def(tasks[t].wtext)
    /\ tasks' = [tasks EXCEPT
           ![t].write = writeSettled(tasks[t].op),
           ![t].wtext = <<>>]
    /\ event' = NoEvent
    /\ UNCHANGED <<hasRoot, stblExists, dirs, activated, _config, contextActive, writer>>
    /\ unhandled' = {}

\* A writeFile of the config file fails: its promise is rejected, and no
\* code has a handler on it.
WriteFail(t) ==
    /\ tasks[t].write = "pending"
    /\ tasks' = [tasks EXCEPT ![t].write = "failed", ![t].wtext = <<>>]
    /\ unhandled' = {IF tasks[t].op = "createDefaultProject"
              THEN "createDefaultProject: writeFile(config)"
              ELSE "setDefaultStbl: writeFile(config)"}
    /\ event' = NoEvent
    /\ UNCHANGED <<hasRoot, file, stblExists, dirs, activated, _config, contextActive,
                   writer>>

\* The then-callback of createDefaultProject's write: showTextDocument, loadConfig().
CreateWriteThen(t) ==
    /\ tasks[t].write = "written"
    /\ tasks' = [tasks EXCEPT ![t].write = "done",
                              ![Child(t)] = loadConfigCall(FALSE)]
    /\ writer' = Child(t)
    /\ _config' = loadConfigEntry(_config)
    /\ contextActive' = setContextValue(loadConfigEntry(_config))
    /\ event' = NoEvent
    /\ UNCHANGED <<hasRoot, file, stblExists, dirs, activated>>
    /\ unhandled' = {}

\* ------------------------------------------------------------ setDefaultStbl

\* The guard of line 131.
noConfigLoaded(slot) == ~Boolean(slot)

\* A variant of withDefaultPath that stores the Uri object, not its fsPath.
withDefaultPath_uriObject(cfg, fsPath) ==
    [cfg EXCEPT !.stringTables =
         Def([defaultPath |-> [type |-> "object", val |-> fsPath]])]

\* Lines 140-146: the config with stringTables.defaultPath set, the
\* stringTables object made when it is missing.
withDefaultPath(cfg, fsPath) ==
    IF cfg.stringTables = Undefined
      THEN [cfg EXCEPT !.stringTables =
                Def([defaultPath |-> [type |-> "string", val |-> fsPath]])]
      ELSE [cfg EXCEPT !.stringTables =
                Def([@[1] EXCEPT !.defaultPath = [type |-> "string", val |-> fsPath]])]

\* A variant of setDefaultStblSync without the guard: with nothing loaded it
\* makes an object to hold the path.
setDefaultStblSync_noGuard(slot, fsPath) ==
    [go |-> TRUE,
     slot |-> Def(withDefaultPath(
                 IF slot = Undefined
                   THEN [buildInstructions |-> Undefined, stringTables |-> Undefined]
                   ELSE slot[1],
                 fsPath)),
     notes |-> <<>>]

\* Lines 131-146, the part of setDefaultStbl before its await: whether it
\* goes on, what the slot holds afterwards, what it shows.
setDefaultStblSync(slot, fsPath) ==
    IF noConfigLoaded(slot)
      THEN [go |-> FALSE, slot |-> slot, notes |-> <<NotLoadedError>>]
      ELSE [go |-> TRUE, slot |-> Def(withDefaultPath(slot[1], fsPath)), notes |-> <<>>]

\* setDefaultStbl(stblUri) is called and runs to its await of _findConfig:
\* the object in the slot is changed in place, not through the setter.
SetDefaultStblCall(t, fsPath) ==
    /\ activated
    /\ FreeSlot(tasks, t)
    /\ LET sync == setDefaultStblSync(_config, fsPath)
       IN  /\ _config' = sync.slot
           /\ tasks' = [tasks EXCEPT
                  ![t] = IF sync.go
                           THEN findConfigCall([IdleTask EXCEPT !.op = "setDefaultStbl",
                                                                !.fsPath = fsPath,
                                                                !.target = writer])
                           ELSE returned([IdleTask EXCEPT !.op = "setDefaultStbl"],
                                         Fulfilled(Undefined), sync.notes)]
    /\ event' = NoEvent
    /\ UNCHANGED <<hasRoot, file, stblExists, dirs, activated, contextActive, writer>>
    /\ unhandled' = {}

\* A variant of setStblBranch that does not look at the uri.
setStblBranch_noUriCheck(uri, slot) == IF slot = Undefined THEN "throws" ELSE "write"

\* Which way lines 149-158 go, on the uri _findConfig gave and the slot as
\* it is now.
setStblBranch(uri, slot) ==
    IF ~uri THEN "locate failed"
    ELSE IF slot = Undefined THEN "throws"
    ELSE "write"

\* setDefaultStbl resumes from _findConfig: serializes what the slot holds
\* now and starts the write, not awaited.  With the slot empty by now,
\* stringifyConfig(undefined) gives no text, Buffer.from throws, and the
\* promise setDefaultStbl returned is rejected.
SetStblFindResume(t) ==
    /\ tasks[t].op = "setDefaultStbl"
    /\ tasks[t].pc = "find_resume"
    /\ CASE setStblBranch(tasks[t].uri, _config) = "write" ->
              /\ tasks' = [tasks EXCEPT
                     ![t] = returned([@ EXCEPT !.write = "pending",
                                               !.wtext = stringifyConfig(_config[1])],
                                     Fulfilled(Undefined), <<>>)]
              /\ unhandled' = {}
         [] setStblBranch(tasks[t].uri, _config) = "throws" ->
              /\ tasks' = [tasks EXCEPT ![t] = returned(@, Rejected, <<>>)]
              /\ unhandled' = {"setDefaultStbl: TypeError"}
         [] OTHER ->
              /\ tasks' = [tasks EXCEPT
                     ![t] = returned(@, Fulfilled(Undefined), <<LocateFailedError>>)]
              /\ unhandled' = {}
    /\ event' = NoEvent
    /\ UNCHANGED <<hasRoot, file, stblExists, dirs, activated, _config, contextActive,
                   writer>>

\* -------------------------------------------------------------------- popups

\* The user clicks a button of a notification some invocation has shown.
PopupClick(t, b) ==
    /\ tasks[t].notes # <<>>
    /\ b \in DOMAIN tasks[t].notes[1].buttons
    /\ LET call == _handlePopupClick(tasks[t].notes[1].buttons[b])
       IN  CASE call = "loadConfig" ->
                  /\ \E u \in Slots :
                       /\ FreeSlot(tasks, u)
                       /\ tasks' = [tasks EXCEPT ![u] = loadConfigCall(TRUE)]
                       /\ writer' = u
                  /\ _config' = loadConfigEntry(_config)
                  /\ contextActive' = setContextValue(loadConfigEntry(_config))
             [] call = "createDefaultProject" ->
                  /\ \E u \in Slots :
                       /\ FreeSlot(tasks, u)
                       /\ tasks' = [tasks EXCEPT ![u] =
                              findConfigCall([IdleTask EXCEPT !.op = "createDefaultProject"])]
                  /\ UNCHANGED <<_config, contextActive, writer>>
             [] OTHER ->
                  UNCHANGED <<tasks, _config, contextActive, writer>>
    /\ event' = NoEvent
    /\ UNCHANGED <<hasRoot, file, stblExists, dirs, activated>>
    /\ unhandled' = {}

\* ------------------------------------------------------------- specification

Next ==
    \/ Activate
    \/ \E path \in EventPaths, text \in UserTexts : SaveEvent(path, text)
    \/ \E files \in DeletedSets : DeleteEvent(files)
    \/ ExternalCreate
    \/ RemoveWorkspaceFolder
    \/ \E t \in AllSlots : FindStat(t)
    \/ \E t \in AllSlots : LoadFindResume(t)
    \/ \E t \in AllSlots, ok \in BOOLEAN : ReadIO(t, ok)
    \/ \E t \in AllSlots : LoadReadResume(t)
    \/ \E t \in Slots : CreateDefaultProjectCall(t)
    \/ \E t \in Slots, dirsOk \in BOOLEAN : CreateFindResume(t, dirsOk)
    \/ \E t \in Slots : StblStat(t)
    \/ \E t \in Slots, stblOk \in BOOLEAN : CreateStblResume(t, stblOk)
    \/ \E t \in AllSlots : WriteIO(t)
    \/ \E t \in AllSlots : WriteFail(t)
    \/ \E t \in Slots : CreateWriteThen(t)
    \/ \E t \in Slots, fsPath \in StblPaths : SetDefaultStblCall(t, fsPath)
    \/ \E t \in Slots : SetStblFindResume(t)
    \/ \E t \in AllSlots, b \in 1..2 : PopupClick(t, b)

Spec == Init /\ [][Next]_vars

\* The steps that are not the user's or the outside world's: the file system
\* serving a request of invocation t, and the event loop resuming t or
\* running its then-callback.
Step(t) ==
    \/ FindStat(t)
    \/ LoadFindResume(t)
    \/ \E ok \in BOOLEAN : ReadIO(t, ok)
    \/ LoadReadResume(t)
    \/ \E dirsOk \in BOOLEAN : CreateFindResume(t, dirsOk)
    \/ StblStat(t)
    \/ \E stblOk \in BOOLEAN : CreateStblResume(t, stblOk)
    \/ WriteIO(t)
    \/ WriteFail(t)
    \/ CreateWriteThen(t)
    \/ SetStblFindResume(t)

\* While a request is waiting to be served or a continuation to be run, one
\* of them eventually is: the run does not stop with work pending.
FairSpec == Spec /\ WF_vars(\E t \in AllSlots : Step(t))

\* ------------------------------------------------------------------- claims

\* The step in which loadConfig, resumed from readFile, runs to its return.
LoadCompletes(t) ==
    /\ tasks[t].op = "loadConfig"
    /\ tasks[t].pc = "read_resume"
    /\ tasks'[t].pc = "done"

\* The document is well-formed JSON and matches the schema.
WellFormedAndValid(text) == JSONSyntaxOk(text) /\ SchemaValid(JSONValue(text))

\* C1: the slot is empty or holds a schema-valid config, whatever has run
\* (loads, events, createDefaultProject, setDefaultStbl); and an empty slot
\* becomes full only in the step where a loadConfig, having read a document
\* that parses and validates, stores that document.
C1_SlotHoldsValidatedConfig ==
    [][/\ (_config' # Undefined => SchemaValid(_config'[1]))
       /\ (_config = Undefined /\ _config' # Undefined =>
             \E t \in AllSlots :
                /\ LoadCompletes(t)
                /\ tasks[t].content # Undefined
                /\ WellFormedAndValid(tasks[t].content[1])
                /\ _config' = Def(JSONValue(tasks[t].content[1])))]_vars

\* C1's case: setDefaultStbl has changed the loaded config in place.
C1_Witness ==
    /\ _config # Undefined
    /\ _config[1].stringTables # Undefined
    /\ _config[1].stringTables[1].defaultPath.val \in StblPaths
    /\ \E t \in Slots : tasks[t].op = "setDefaultStbl"

\* C2: a loadConfig that has read a well-formed, schema-valid document ends
\* with the slot holding the parsed document, active and the context flag
\* true, and that config as its return value.
C2_LoadStoresParsedDocument ==
    [][\A t \in AllSlots :
         (/\ LoadCompletes(t)
          /\ tasks[t].content # Undefined
          /\ WellFormedAndValid(tasks[t].content[1]))
         => /\ _config' = Def(JSONValue(tasks[t].content[1]))
            /\ get_active'
            /\ contextActive' = TRUE
            /\ tasks'[t].ret = Fulfilled(Def(JSONValue(tasks[t].content[1])))]_vars

\* C2's case: a loadConfig has returned the config now in the slot.
C2_Witness ==
    \E t \in AllSlots :
       /\ tasks[t].op = "loadConfig"
       /\ tasks[t].pc = "done"
       /\ tasks[t].ret.state = "fulfilled"
       /\ tasks[t].ret.value # Undefined
       /\ _config = tasks[t].ret.value
       /\ contextActive
       /\ writer = t

\* The detail the error notification must carry for a document that fails:
\* the parser's message, or the validation failure.
FailureDetail(text) ==
    IF ~JSONSyntaxOk(text) THEN parseConfig(text).err.message
    ELSE SchemaViolations(JSONValue(text))[1]

\* C3: a loadConfig that has read a document failing JSON parsing or schema
\* validation returns undefined, shows exactly one error notification (the
\* parser's message or the validation detail, with Get Help and Reload
\* Config), and does not assign the slot: it leaves the slot as it is, which
\* is empty unless another invocation assigned it after this one cleared it.
C3_FailedLoadLeavesUnloaded ==
    [][\A t \in AllSlots :
         (/\ LoadCompletes(t)
          /\ tasks[t].content # Undefined
          /\ ~WellFormedAndValid(tasks[t].content[1]))
         => /\ tasks'[t].ret = Fulfilled(Undefined)
            /\ tasks'[t].notes =
                 <<[level |-> "error", text |-> "Could not validate S4TK config.",
                    detail |-> FailureDetail(tasks[t].content[1]),
                    buttons |-> <<"Get Help", "Reload Config">>]>>
            /\ _config' = _config
            /\ (writer = t => _config' = Undefined /\ ~contextActive')
            /\ unhandled' = {}]_vars

\* C3's case: a loadConfig has failed on a schema-invalid document and the
\* state is Unloaded.
C3_Witness ==
    \E t \in AllSlots :
       /\ tasks[t].op = "loadConfig"
       /\ tasks[t].pc = "done"
       /\ tasks[t].ret = Fulfilled(Undefined)
       /\ tasks[t].notes # <<>>
       /\ tasks[t].notes[1].level = "error"
       /\ tasks[t].notes[1].detail = "instance requires property buildInstructions"
       /\ writer = t
       /\ _config = Undefined

\* C4: a delete event that names the backing config file while Loaded
\* unloads and shows exactly one warning; a delete event that names only
\* other files changes nothing and shows nothing.
C4_OnlyBackingFileDeletionUnloads ==
    [][\A files \in DeletedSets :
         DeleteEvent(files)
         => IF ConfigUri \in files
              THEN (Boolean(_config)
                     => /\ _config' = Undefined
                        /\ ~contextActive'
                        /\ event'.shown = <<UnloadedWarning>>)
              ELSE /\ _config' = _config
                   /\ contextActive' = contextActive
                   /\ event'.shown = <<>>]_vars

\* The step in which setDefaultStbl, resumed from _findConfig, runs to its return.
SetStblCompletes(t) ==
    /\ tasks[t].op = "setDefaultStbl"
    /\ tasks[t].pc = "find_resume"
    /\ tasks'[t].pc = "done"

\* C5: a setDefaultStbl(p) that found a config loaded and to which
\* _findConfig gave the config's uri ends, under every interleaving, with the
\* slot's config having stringTables.defaultPath = p and with the write of
\* that config's serialization started, a text that parses back to
\* defaultPath = p.
C5_SetDefaultStblPersistsPath ==
    [][\A t \in Slots :
         (SetStblCompletes(t) /\ tasks[t].uri)
         => /\ _config' # Undefined
            /\ _config'[1].stringTables # Undefined
            /\ _config'[1].stringTables[1].defaultPath.val = tasks[t].fsPath
            /\ tasks'[t].write = "pending"
            /\ tasks'[t].wtext = stringifyConfig(_config'[1])
            /\ parseConfig(tasks'[t].wtext).ok
            /\ parseConfig(tasks'[t].wtext).config[1].stringTables[1].defaultPath.val
                 = tasks[t].fsPath]_vars

\* C6: setDefaultStbl called with nothing loaded shows the no-config-loaded
\* error with the Reload Config button, returns without an exception,
\* starts no write, changes no file and leaves the slot empty.
C6_SetDefaultStblUnloaded ==
    [][\A t \in Slots, fsPath \in StblPaths :
         (SetDefaultStblCall(t, fsPath) /\ _config = Undefined)
         => /\ tasks'[t].pc = "done"
            /\ tasks'[t].notes =
                 <<[level |-> "error",
                    text |-> "Cannot set this STBL as default because no S4TK config is currently loaded.",
                    detail |-> "",
                    buttons |-> <<"Reload Config">>]>>
            /\ tasks'[t].ret = Fulfilled(Undefined)
            /\ tasks'[t].write = "none"
            /\ unhandled' = {}
            /\ file' = file
            /\ _config' = Undefined
            /\ ~contextActive']_vars

\* C6's case: setDefaultStbl has returned on an empty slot.
C6_Witness ==
    \E t \in Slots :
       /\ tasks[t].op = "setDefaultStbl"
       /\ tasks[t].pc = "done"
       /\ tasks[t].notes = <<NotLoadedError>>
       /\ tasks[t].write = "none"
       /\ _config = Undefined

\* C7: createDefaultProject, finding the config file present, shows one
\* warning and nothing else: no write, no directory, no string table, no
\* loadConfig, and the slot and context flag as they were.
C7_CreateOnExistingProject ==
    [][\A t \in Slots :
         (/\ tasks[t].op = "createDefaultProject"
          /\ tasks[t].pc = "find_resume"
          /\ tasks[t].exists
          /\ tasks'[t] # tasks[t])
         => /\ tasks'[t].pc = "done"
            /\ tasks'[t].notes =
                 <<[level |-> "warning", text |-> "S4TK config file already exists.",
                    detail |-> "", buttons |-> <<>>]>>
            /\ tasks'[t].write = "none"
            /\ \A u \in AllSlots \ {t} : tasks'[u] = tasks[u]
            /\ file' = file
            /\ dirs' = dirs
            /\ stblExists' = stblExists
            /\ _config' = _config
            /\ contextActive' = contextActive
            /\ unhandled' = {}]_vars

\* C7's case: createDefaultProject has returned on a project that has its
\* config file.
C7_Witness ==
    \E t \in Slots :
       /\ tasks[t].op = "createDefaultProject"
       /\ tasks[t].pc = "done"
       /\ tasks[t].notes = <<ExistsWarning>>
       /\ file # Undefined
       /\ dirs = {}

\* C8: no failure inside loadConfig, createDefaultProject or setDefaultStbl
\* escapes: no promise rejection is left unhandled and no invocation's own
\* promise is rejected.
C8_NoFailureEscapes ==
    /\ unhandled = {}
    /\ \A t \in AllSlots : tasks[t].ret.state # "rejected"

\* C9: the context flag last set equals active (the slot is full).
C9_ContextFlagTracksActive == contextActive = get_active

\* C9's case: the flag has been set to true by a load, the slot being full.
C9_Witness == contextActive /\ Boolean(_config) /\ writer \in AllSlots

\* The step in which loadConfig returns, from either of its awaits.
LoadReturns(t) ==
    /\ tasks[t].op = "loadConfig"
    /\ tasks[t].pc \in {"find_resume", "read_resume"}
    /\ tasks'[t].pc = "done"

\* C10: loadConfig returns the config it saved when loading succeeds; in
\* every other case an error is displayed and undefined is returned.
C10_LoadReturnsConfigOrShowsError ==
    [][\A t \in AllSlots :
         LoadReturns(t)
         => IF tasks'[t].ret.value # Undefined
              THEN _config' = tasks'[t].ret.value
              ELSE /\ tasks'[t].ret = Fulfilled(Undefined)
                   /\ \E i \in DOMAIN tasks'[t].notes :
                        tasks'[t].notes[i].level = "error"]_vars

\* The config createDefaultProject's document parses to.
DefaultConfig == JSONValue(DEFAULT_CONFIG_CONTENT)

\* createDefaultProject goes on past its two early returns.
CreateProceeds(t) ==
    /\ tasks[t].op = "createDefaultProject"
    /\ tasks[t].pc = "find_resume"
    /\ tasks[t].uri
    /\ ~tasks[t].exists
    /\ tasks'[t] # tasks[t]

\* The step in which the loadConfig of createDefaultProject's then-callback starts.
ThenLoadStarts(t) ==
    /\ tasks[Child(t)].pc = "idle"
    /\ tasks'[Child(t)].pc # "idle"

\* What createDefaultProject does for certain once it goes on: it starts the
\* write of the default document; the write, when it succeeds, puts that
\* document at the config path; loadConfig is called only by the
\* then-callback of the write, after it has succeeded; and that loadConfig,
\* when it has read the default document, ends Loaded with the default config.
CreateWritesThenLoads ==
    [][\A t \in Slots :
         /\ (CreateProceeds(t)
               => tasks'[t].write = "pending" /\ tasks'[t].wtext = DEFAULT_CONFIG_CONTENT)
         /\ (tasks[t].op = "createDefaultProject" /\ tasks[t].write = "pending"
              /\ tasks'[t].write = "written"
               => file' = Def(DEFAULT_CONFIG_CONTENT))
         /\ (ThenLoadStarts(t)
               => /\ tasks[t].write = "written"
                  /\ tasks'[t].write = "done"
                  /\ tasks'[Child(t)].op = "loadConfig")
         /\ (LoadCompletes(Child(t)) /\ tasks[Child(t)].content = Def(DEFAULT_CONFIG_CONTENT)
               => /\ _config' = Def(DefaultConfig)
                  /\ contextActive')]_vars

\* C11 (as stated): once createDefaultProject goes on, it writes the default
\* document, calls loadConfig only after that write has completed, and the
\* state eventually is Loaded with the default config.
C11_CreateEventuallyLoadsDefault ==
    /\ CreateWritesThenLoads
    /\ \A t \in Slots :
         (tasks[t].op = "createDefaultProject" /\ tasks[t].write = "pending")
           ~> (_config = Def(DefaultConfig))

\* C11 (amended): once createDefaultProject goes on, it writes the default
\* document and calls loadConfig only after that write has completed; the
\* write eventually fails, in which case no loadConfig is called, or the
\* loadConfig it triggers eventually returns; and that loadConfig ends Loaded
\* with the default config when the default document is what it read.
C11_CreateLoadsDefaultIfUndisturbed ==
    /\ CreateWritesThenLoads
    /\ \A t \in Slots :
         (tasks[t].op = "createDefaultProject" /\ tasks[t].write = "pending")
           ~> (\/ tasks[t].write = "failed" /\ tasks[Child(t)].pc = "idle"
               \/ tasks[Child(t)].pc = "done")

\* C11's case: createDefaultProject has written the default document and the
\* loadConfig of its then-callback has stored the default config.
C11_Witness ==
    \E t \in Slots :
       /\ tasks[t].op = "createDefaultProject"
       /\ tasks[t].write = "done"
       /\ tasks[Child(t)].pc = "done"
       /\ writer = Child(t)
       /\ file = Def(DEFAULT_CONFIG_CONTENT)
       /\ _config = Def(DefaultConfig)

\* The step in which loadConfig is invoked and runs to its first await.
LoadInvoked(t) ==
    /\ tasks[t].pc = "idle"
    /\ tasks'[t].op = "loadConfig"

\* C12: loadConfig empties the slot and sets the flag false in the step it
\* is invoked in, before its first await, whatever the slot held.  And the
\* config object held before is never in the slot again: a full slot's
\* holder (the invocation that stored the object) has returned and stays
\* returned, and a slot that becomes full, or changes holder, does so only
\* by a loadConfig that was in flight storing what it has just parsed.
C12_LoadClearsFirst ==
    [][/\ \A t \in AllSlots :
            LoadInvoked(t)
            => /\ _config' = Undefined
               /\ ~contextActive'
               /\ ~get_active'
               /\ tasks'[t].pc \in {"find_stat", "find_resume"}
       /\ \A t \in AllSlots : tasks[t].pc = "done" => tasks'[t].pc = "done"
       /\ (_config # Undefined => writer \in AllSlots /\ tasks[writer].pc = "done")
       /\ (_config' # Undefined
             => \/ _config # Undefined /\ writer' = writer
                \/ writer' \in AllSlots /\ LoadCompletes(writer'))]_vars

\* C12's case: a loadConfig invoked after another had stored a config has
\* failed or found no file, and the state is Unloaded.
C12_Witness ==
    \E t, u \in AllSlots :
       /\ tasks[u].op = "loadConfig"
       /\ tasks[u].pc = "done"
       /\ tasks[u].ret.value # Undefined
       /\ tasks[t].op = "loadConfig"
       /\ tasks[t].pc = "done"
       /\ tasks[t].ret = Fulfilled(Undefined)
       /\ writer = t
       /\ _config = Undefined
       /\ ~contextActive

\* Invocation t is a loadConfig that has been called and has not returned.
LoadInFlight(t) ==
    /\ tasks[t].op = "loadConfig"
    /\ tasks[t].pc \notin {"idle", "done"}

\* C13: with two loadConfig calls in flight, neither stops the other: a
\* step of one leaves the other where it stands, with what it has read, and
\* each can still go on.  When one of them returns, the slot holds what
\* that one stores if it stores (a parsed config), and is left as the last
\* assignment made it if it stores nothing: the last assignment wins,
\* whichever call was made first and whichever read the file later.
C13_ConcurrentLoadsLastWriteWins ==
    [][\A t, u \in AllSlots :
         (t # u /\ LoadInFlight(t) /\ LoadInFlight(u))
         => /\ (tasks'[t] # tasks[t] => tasks'[u] = tasks[u])
            /\ LoadInFlight(u)' \/ LoadReturns(u)
            /\ (ENABLED FindStat(u) \/ ENABLED LoadFindResume(u)
                \/ ENABLED ReadIO(u, TRUE) \/ ENABLED LoadReadResume(u))
            /\ (LoadReturns(t)
                 => IF tasks'[t].ret.value # Undefined
                      THEN _config' = tasks'[t].ret.value /\ writer' = t
                      ELSE _config' = _config /\ writer' = writer)]_vars

\* C13's case: two loadConfig calls have read different documents and both
\* have returned; the slot holds what the first-invoked one stored last,
\* which is not what the other read later.
C13_Witness ==
    \E t, u \in Slots :
       /\ t < u
       /\ tasks[t].op = "loadConfig" /\ tasks[t].pc = "done"
       /\ tasks[u].op = "loadConfig" /\ tasks[u].pc = "done"
       /\ tasks[t].ret.value # Undefined
       /\ tasks[u].ret.value # Undefined
       /\ tasks[t].ret.value # tasks[u].ret.value
       /\ writer = t
       /\ _config = tasks[t].ret.value

C15_SetDefaultStblCannotLocate ==
    [][\A t \in Slots :
         (SetStblCompletes(t) /\ ~tasks[t].uri)
         => /\ tasks'[t].notes =
                 <<[level |-> "error",
                    text |-> "Failed to locate config file while updating default STBL.",
                    detail |-> "",
                    buttons |-> <<"Report Problem">>]>>
            /\ tasks'[t].ret = Fulfilled(Undefined)
            /\ tasks'[t].write = "none"
            /\ file' = file
            /\ unhandled' = {}
            /\ _config' = _config
            /\ contextActive' = contextActive
            /\ (writer = tasks[t].target
                 => /\ _config' # Undefined
                    /\ contextActive'
                    /\ _config'[1].stringTables
                         = Def([defaultPath |-> [type |-> "string", val |-> tasks[t].fsPath]]))]_vars

\* C15's case: setDefaultStbl has returned with the locate-failed error, the
\* path set in memory and not in the file.
C15_Witness ==
    \E t \in Slots :
       /\ tasks[t].op = "setDefaultStbl"
       /\ tasks[t].pc = "done"
       /\ tasks[t].notes = <<LocateFailedError>>
       /\ tasks[t].write = "none"
       /\ _config # Undefined
       /\ _config[1].stringTables # Undefined
       /\ _config[1].stringTables[1].defaultPath.val \in StblPaths
       /\ file # Undefined
       /\ parseConfig(file[1]).ok
       /\ parseConfig(file[1]).config # _config

\* The step invokes exactly one loadConfig and touches no other invocation.
OneLoadInvoked ==
    \E t \in AllSlots :
       /\ LoadInvoked(t)
       /\ \A u \in AllSlots \ {t} : tasks'[u] = tasks[u]

\* C16: activate() subscribes to both events and invokes loadConfig exactly
\* once; after that every save of the backing config file invokes
\* loadConfig exactly once, and a save of any other file invokes nothing
\* and changes neither the slot nor the flag.
C16_OnlyBackingFileSaveLoads ==
    [][/\ (Activate => activated' /\ OneLoadInvoked)
       /\ \A path \in EventPaths, text \in UserTexts :
            SaveEvent(path, text)
            => IF path = ConfigUri
                 THEN OneLoadInvoked
                 ELSE /\ tasks' = tasks
                      /\ _config' = _config
                      /\ contextActive' = contextActive]_vars

\* No invocation is in flight: none is waiting at an await, and no write
\* or then-callback is outstanding.
Quiescent ==
    \A t \in AllSlots :
       /\ tasks[t].pc \in {"idle", "done"}
       /\ tasks[t].write \notin {"pending", "written"}

\* C17: whenever nothing is in flight and the backing config file does not
\* exist, the slot is empty and the context flag false.
C17_NoFileMeansUnloaded ==
    (Quiescent /\ file = Undefined) => (_config = Undefined /\ ~contextActive)

\* The backing file is as the editor last saved it (or as it was found): no
\* invocation but loadConfig has run, so nothing else has written it, and
\* its content is a document of the user's, so no delete or outside program
\* came after the save.
FileAsLastSaved ==
    /\ \A t \in AllSlots : tasks[t].op \in {"none", "loadConfig"}
    /\ file # Undefined
    /\ file[1] \in UserTexts

\* C18: whenever nothing is in flight, the backing file is as last saved,
\* and the state is Loaded, the slot holds the parse of the file's current
\* content.
C18_LoadedMatchesSavedFile ==
    (Quiescent /\ FileAsLastSaved /\ _config # Undefined)
      => _config = parseConfig(file[1]).config

\* C19: when setDefaultStbl(p), having the config's uri, comes to serialize
\* and write, the slot is not empty, the call does not throw, and what it
\* writes is the serialization of the config in the slot at that moment,
\* whose stringTables.defaultPath is p.
C19_SetDefaultStblSerializesSlot ==
    [][\A t \in Slots :
         (SetStblCompletes(t) /\ tasks[t].uri)
         => /\ _config # Undefined
            /\ tasks'[t].ret.state # "rejected"
            /\ (tasks'[t].write = "pending"
                 => /\ tasks'[t].wtext = stringifyConfig(_config[1])
                    /\ _config[1].stringTables
                         = Def([defaultPath |-> [type |-> "string",
                                                 val |-> tasks[t].fsPath]]))]_vars

\* C20: whenever the write of createDefaultProject's default document is
\* carried out, no config file exists at the path at that moment.
C20_CreateNeverOverwrites ==
    [][\A t \in Slots :
         (/\ tasks[t].op = "createDefaultProject"
          /\ tasks[t].write = "pending"
          /\ tasks'[t].write = "written")
         => file = Undefined]_vars

=============================================================================
